---------------------------- MODULE Spec2Model ----------------------------
(***************************************************************************)
(* The ordered-key tree layer of internal/tree/tree.go: a Tree is a        *)
(* (Session, Namespace, SortOrder) triple that encodes typed composite     *)
(* keys into the flat byte space of a key/value session and iterates on    *)
(* byte ranges of it.                                                      *)
(*                                                                         *)
(* Byte strings are sequences of 0..255 compared as bytes.Compare does.    *)
(* A uint64 mask (SortOrder) is the set of the positions of its 1 bits.    *)
(* The session (engine.Session), the key encoder (Key.Encode) and the      *)
(* value encoding (package encoding) are not part of tree.go; they are     *)
(* modelled from their contracts in spec.md 4.A, 4.B, 4.D and 6.           *)
(***************************************************************************)
EXTENDS Integers, Sequences, FiniteSets, TLC

VARIABLES
    store,      \* the session's content: encoded key -> stored value
    last,       \* the last call: its arguments, what it returned, and for a
                \* write whether the key was there (had) or how many keys
                \* went (deleted)
    handle,     \* the cleanup handle returned by the last NewTransient
    open        \* the session's iterators that are open: opened, not closed

vars == <<store, last, handle, open>>

---------------------------------------------------------------------------
(* Bounds of the model.                                                    *)

\* The most keys the session holds at once.
MaxKeys == 3

\* The most invocations of one cleanup handle that are counted.
MaxCalls == 2

---------------------------------------------------------------------------
(* Byte strings.                                                           *)

\* bytes.Compare(a, b) < 0: a is a proper prefix of b, or a is smaller at
\* the first byte where they differ.
BytesLT(a, b) ==
    \E i \in 1..Len(b) :
        /\ \A j \in 1..(i - 1) : j <= Len(a) /\ a[j] = b[j]
        /\ (i > Len(a) \/ a[i] < b[i])

BytesLE(a, b) == a = b \/ BytesLT(a, b)

\* The keys of S in increasing byte order.
RECURSIVE SortKeys(_)
SortKeys(S) ==
    IF S = {} THEN <<>>
    ELSE LET m == CHOOSE x \in S : \A y \in S : BytesLE(x, y)
         IN  <<m>> \o SortKeys(S \ {m})

Reverse(s) == [i \in 1..Len(s) |-> s[Len(s) + 1 - i]]

\* The suffix byte of buildLastKey and of the exclusive-start and
\* inclusive-end keys.
LastByte == 255

---------------------------------------------------------------------------
(* SortOrder: a 64-bit mask, held as the set of its 1 bits (0..63).        *)

\* uint64(1) << n: Go yields 0 when n >= 64.
Shl1(n) == IF n \in 0..63 THEN {n} ELSE {}

\* x >> n on a mask.
Shr(x, n) == {b - n : b \in {c \in x : c >= n}}

\* An IsDesc that looks at bit i instead of bit 63-i.
IsDesc_LowBit(o, i) ==
    IF i > 63 THEN [panic |-> TRUE, desc |-> FALSE]
    ELSE LET mask == Shl1(i)
         IN  [panic |-> FALSE, desc |-> Shr(o \cap mask, i) # {}]

\* func (o SortOrder) IsDesc(i int) bool. "panic" when i > 63.
IsDesc(o, i) ==
    IF i > 63 THEN [panic |-> TRUE, desc |-> FALSE]
    ELSE LET mask == Shl1(63 - i)
         IN  [panic |-> FALSE, desc |-> Shr(o \cap mask, 63 - i) # {}]

\* func (o SortOrder) SetDesc(i int) SortOrder
SetDesc(o, i) ==
    IF i > 63 THEN [panic |-> TRUE, order |-> o]
    ELSE [panic |-> FALSE, order |-> o \cup Shl1(63 - i)]

\* A SetAsc that clears with & instead of &^: it keeps bit 63-i alone.
SetAsc_And(o, i) ==
    IF i > 63 THEN [panic |-> TRUE, order |-> o]
    ELSE [panic |-> FALSE, order |-> o \cap Shl1(63 - i)]

\* func (o SortOrder) SetAsc(i int) SortOrder
SetAsc(o, i) ==
    IF i > 63 THEN [panic |-> TRUE, order |-> o]
    ELSE [panic |-> FALSE, order |-> o \ Shl1(63 - i)]

---------------------------------------------------------------------------
(* Value encoding (spec.md 4.A, 6): a type tag, then the payload; the      *)
(* descending form complements both.  The sentinel tags of a type are      *)
(* reserved bytes just below and just above its tag.                       *)

IntTag == 32
TextTag == 64

IntValue(n) == [type |-> "int", v |-> n]
TextValue(n) == [type |-> "text", v |-> n]

TypeTag(type) == IF type = "int" THEN IntTag ELSE TextTag

MinEnctype(type) == TypeTag(type) - 1
MaxEnctype(type) == TypeTag(type) + 1
MinEnctypeDesc(type) == 255 - MaxEnctype(type)
MaxEnctypeDesc(type) == 255 - MinEnctype(type)

\* encode_asc(v) / encode_desc(v)
EncodeValue(val, desc) ==
    IF desc THEN <<255 - TypeTag(val.type), 255 - val.v>>
    ELSE <<TypeTag(val.type), val.v>>

\* encoding.EncodeInt(nil, n), for the small non-negative n of a namespace.
EncodeInt(n) == <<IntTag, n>>

---------------------------------------------------------------------------
(* Keys.  A *Key is nil or holds its values.                               *)

NilKey == [present |-> FALSE, values |-> <<>>]
NewKey(values) == [present |-> TRUE, values |-> values]

\* A Tree value.
New(ns, order) == [Namespace |-> ns, Order |-> order]

RECURSIVE EncodeValues(_, _, _)
EncodeValues(values, order, i) ==
    IF i > Len(values) THEN <<>>
    ELSE EncodeValue(values[i], IsDesc(order, i - 1).desc)
             \o EncodeValues(values, order, i + 1)

\* func (k *Key) Encode(ns Namespace, order SortOrder) ([]byte, error):
\* the namespace prefix, then each component under its direction bit.
KeyEncode(key, ns, order) ==
    [err |-> "nil", bytes |-> EncodeInt(ns) \o EncodeValues(key.values, order, 1)]

---------------------------------------------------------------------------
(* The session (spec.md 4.D), on a content s: encoded key -> value.        *)

SessionInsert(s, k, v) ==
    IF k \in DOMAIN s THEN [store |-> s, err |-> "KeyAlreadyExists"]
    ELSE [store |-> [x \in DOMAIN s \cup {k} |-> IF x = k THEN v ELSE s[x]],
          err |-> "nil"]

SessionPut(s, k, v) ==
    [store |-> [x \in DOMAIN s \cup {k} |-> IF x = k THEN v ELSE s[x]],
     err |-> "nil"]

SessionGet(s, k) ==
    IF k \in DOMAIN s THEN [v |-> s[k], err |-> "nil"]
    ELSE [v |-> <<>>, err |-> "KeyNotFound"]

SessionExists(s, k) == [ok |-> k \in DOMAIN s, err |-> "nil"]

SessionDelete(s, k) ==
    IF k \in DOMAIN s THEN [store |-> [x \in DOMAIN s \ {k} |-> s[x]], err |-> "nil"]
    ELSE [store |-> s, err |-> "KeyNotFound"]

\* Half-open [lo, hi).
SessionDeleteRange(s, lo, hi) ==
    [store |-> [x \in {y \in DOMAIN s : ~(BytesLE(lo, y) /\ BytesLT(y, hi))} |-> s[x]],
     err |-> "nil"]

\* The keys an iterator over [lo, hi) walks, in byte order.
SessionIterator(s, lo, hi) ==
    SortKeys({y \in DOMAIN s : BytesLE(lo, y) /\ BytesLT(y, hi)})

---------------------------------------------------------------------------
(* The tree's operations, as functions of the session's content s.         *)

\* var defaultValue = []byte{0}
defaultValue == <<0>>

\* What Get and the callback of IterateOnRange are given: nil, or the bytes.
NoValue == [nil |-> TRUE, bytes |-> <<>>]
SomeValue(b) == [nil |-> FALSE, bytes |-> b]

\* A read that takes the one byte 0x00 alone for the empty value.
ReadValue_SentinelOnly(v) ==
    IF Len(v) = 0 \/ v = defaultValue THEN NoValue ELSE SomeValue(v)

\* if len(v) == 0 || v[0] == 0 { v = nil }, in Get.
ReadValue(v) == IF Len(v) = 0 \/ v[1] = 0 THEN NoValue ELSE SomeValue(v)

\* if len(v) == 0 || v[0] == 0 { v = nil }, in the loop of IterateOnRange.
IterReadValue(v) == IF Len(v) = 0 \/ v[1] = 0 THEN NoValue ELSE SomeValue(v)

\* A write without the empty-value rewrite.
WriteValue_Verbatim(value) == value

\* if len(value) == 0 { value = defaultValue }
WriteValue(value) == IF Len(value) = 0 THEN defaultValue ELSE value

\* Insert as it would be if it called Session.Put: an upsert.
Insert_Upsert(s, t, key, value) ==
    LET v == WriteValue(value)
        k == KeyEncode(key, t.Namespace, t.Order)
    IN  IF k.err # "nil" THEN [store |-> s, err |-> k.err]
        ELSE SessionPut(s, k.bytes, v)

\* func (t *Tree) Insert(key *Key, value []byte) error
Insert(s, t, key, value) ==
    LET v == WriteValue(value)
        k == KeyEncode(key, t.Namespace, t.Order)
    IN  IF k.err # "nil" THEN [store |-> s, err |-> k.err]
        ELSE SessionInsert(s, k.bytes, v)

\* Put as it would be if it called Session.Insert: it refuses a present key.
Put_InsertOnly(s, t, key, value) ==
    LET v == WriteValue(value)
        k == KeyEncode(key, t.Namespace, t.Order)
    IN  IF k.err # "nil" THEN [store |-> s, err |-> k.err]
        ELSE SessionInsert(s, k.bytes, v)

\* func (t *Tree) Put(key *Key, value []byte) error
Put(s, t, key, value) ==
    LET v == WriteValue(value)
        k == KeyEncode(key, t.Namespace, t.Order)
    IN  IF k.err # "nil" THEN [store |-> s, err |-> k.err]
        ELSE SessionPut(s, k.bytes, v)

\* func (t *Tree) Get(key *Key) ([]byte, error)
Get(s, t, key) ==
    LET k == KeyEncode(key, t.Namespace, t.Order)
    IN  IF k.err # "nil" THEN [v |-> NoValue, err |-> k.err]
        ELSE LET r == SessionGet(s, k.bytes)
             IN  IF r.err # "nil" THEN [v |-> NoValue, err |-> r.err]
                 ELSE [v |-> ReadValue(r.v), err |-> "nil"]

\* func (t *Tree) Exists(key *Key) (bool, error)
Exists(s, t, key) ==
    LET k == KeyEncode(key, t.Namespace, t.Order)
    IN  IF k.err # "nil" THEN [ok |-> FALSE, err |-> k.err]
        ELSE SessionExists(s, k.bytes)

\* func (t *Tree) Delete(key *Key) error
Delete(s, t, key) ==
    LET k == KeyEncode(key, t.Namespace, t.Order)
    IN  IF k.err # "nil" THEN [store |-> s, err |-> k.err]
        ELSE SessionDelete(s, k.bytes)

\* Truncate without the successor namespace as its upper bound.
Truncate_NoSuccessor(s, t) ==
    SessionDeleteRange(s, EncodeInt(t.Namespace), EncodeInt(t.Namespace))

\* Truncate with an upper bound one namespace too far.
Truncate_Overshoot(s, t) ==
    SessionDeleteRange(s, EncodeInt(t.Namespace), EncodeInt(t.Namespace + 2))

\* func (t *Tree) Truncate() error
Truncate(s, t) ==
    SessionDeleteRange(s, EncodeInt(t.Namespace), EncodeInt(t.Namespace + 1))

---------------------------------------------------------------------------
(* Ranges and the boundary builder.                                        *)

\* type Range struct { Min, Max *Key; Exclusive bool }; a nil *Range.
Range(min, max, exclusive) ==
    [nil |-> FALSE, Min |-> min, Max |-> max, Exclusive |-> exclusive]
NilRange == [nil |-> TRUE, Min |-> NilKey, Max |-> NilKey, Exclusive |-> FALSE]

\* A builder's result: the bytes, or a panic (a slice bound out of range).
Built(b) == [err |-> "nil", bytes |-> b]
BuildPanic == [err |-> "panic", bytes |-> <<>>]

\* func (t *Tree) isDescRange(rng *Range) bool
isDescRange(t, rng) ==
    IF rng.Min.present THEN IsDesc(t.Order, Len(rng.Min.values) - 1)
    ELSE IF rng.Max.present THEN IsDesc(t.Order, Len(rng.Max.values) - 1)
    ELSE [panic |-> FALSE, desc |-> FALSE]

\* func (t *Tree) buildFirstKey() ([]byte, error)
buildFirstKey(t) ==
    LET k == KeyEncode(NewKey(<<>>), t.Namespace, t.Order)
    IN  IF k.err # "nil" THEN [err |-> k.err, bytes |-> <<>>] ELSE Built(k.bytes)

\* A last key built on the namespace that follows.
buildLastKey_Successor(t) == Append(EncodeInt(t.Namespace + 1), LastByte)

\* func (t *Tree) buildLastKey() []byte
buildLastKey(t) == Append(EncodeInt(t.Namespace), LastByte)

\* func (t *Tree) buildMinKeyForType(max *Key, desc bool) ([]byte, error)
\* max.values[:len(max.values)-1] panics on a key of no values.
buildMinKeyForType(t, max, desc) ==
    LET n == Len(max.values)
        tag(i) == IF desc THEN MinEnctypeDesc(max.values[i].type)
                  ELSE MinEnctype(max.values[i].type)
    IN  IF ~max.present THEN buildFirstKey(t)
        ELSE IF n = 1 THEN Built(Append(EncodeInt(t.Namespace), tag(1)))
        ELSE IF n - 1 < 0 THEN BuildPanic
        ELSE LET buf == KeyEncode(NewKey(SubSeq(max.values, 1, n - 1)),
                                  t.Namespace, t.Order)
             IN  IF buf.err # "nil" THEN [err |-> buf.err, bytes |-> <<>>]
                 ELSE Built(Append(buf.bytes, tag(n)))

\* An open upper bound that is the last key of the namespace whatever the
\* type of the given key's last component.
buildMaxKeyForType_Untyped(t, min, desc) == Built(buildLastKey(t))

\* func (t *Tree) buildMaxKeyForType(min *Key, desc bool) ([]byte, error)
buildMaxKeyForType(t, min, desc) ==
    LET n == Len(min.values)
        tag(i) == IF desc THEN MaxEnctypeDesc(min.values[i].type)
                  ELSE MaxEnctype(min.values[i].type)
    IN  IF ~min.present THEN Built(buildLastKey(t))
        ELSE IF n = 1 THEN Built(Append(EncodeInt(t.Namespace), tag(1)))
        ELSE IF n - 1 < 0 THEN BuildPanic
        ELSE LET buf == KeyEncode(NewKey(SubSeq(min.values, 1, n - 1)),
                                  t.Namespace, t.Order)
             IN  IF buf.err # "nil" THEN [err |-> buf.err, bytes |-> <<>>]
                 ELSE Built(Append(buf.bytes, tag(n)))

\* func (t *Tree) buildStartKeyInclusive(key *Key, desc bool) ([]byte, error)
buildStartKeyInclusive(t, key, desc) ==
    LET b == KeyEncode(key, t.Namespace, t.Order)
    IN  IF b.err # "nil" THEN [err |-> b.err, bytes |-> <<>>] ELSE Built(b.bytes)

\* An exclusive start key without the 0xFF suffix.
buildStartKeyExclusive_NoSuffix(t, key, desc) ==
    LET b == KeyEncode(key, t.Namespace, t.Order)
    IN  IF b.err # "nil" THEN [err |-> b.err, bytes |-> <<>>] ELSE Built(b.bytes)

\* func (t *Tree) buildStartKeyExclusive(key *Key, desc bool) ([]byte, error)
buildStartKeyExclusive(t, key, desc) ==
    LET b == KeyEncode(key, t.Namespace, t.Order)
    IN  IF b.err # "nil" THEN [err |-> b.err, bytes |-> <<>>]
        ELSE Built(Append(b.bytes, LastByte))

\* An inclusive end key without the 0xFF suffix.
buildEndKeyInclusive_NoSuffix(t, key, desc) ==
    LET b == KeyEncode(key, t.Namespace, t.Order)
    IN  IF b.err # "nil" THEN [err |-> b.err, bytes |-> <<>>] ELSE Built(b.bytes)

\* func (t *Tree) buildEndKeyInclusive(key *Key, desc bool) ([]byte, error)
buildEndKeyInclusive(t, key, desc) ==
    LET b == KeyEncode(key, t.Namespace, t.Order)
    IN  IF b.err # "nil" THEN [err |-> b.err, bytes |-> <<>>]
        ELSE Built(Append(b.bytes, LastByte))

\* func (t *Tree) buildEndKeyExclusive(key *Key, desc bool) ([]byte, error)
buildEndKeyExclusive(t, key, desc) ==
    LET b == KeyEncode(key, t.Namespace, t.Order)
    IN  IF b.err # "nil" THEN [err |-> b.err, bytes |-> <<>>] ELSE Built(b.bytes)

\* func (t *Tree) buildInclusiveBoundaries(min, max *Key, desc bool)
buildInclusiveBoundaries(t, min, max, desc) ==
    LET start == IF ~min.present THEN buildMinKeyForType(t, max, desc)
                 ELSE buildStartKeyInclusive(t, min, desc)
        end == IF ~max.present THEN buildMaxKeyForType(t, min, desc)
               ELSE buildEndKeyInclusive(t, max, desc)
    IN  IF start.err # "nil" THEN [err |-> start.err, start |-> <<>>, end |-> <<>>]
        ELSE [err |-> end.err, start |-> start.bytes, end |-> end.bytes]

\* func (t *Tree) buildExclusiveBoundaries(min, max *Key, desc bool)
buildExclusiveBoundaries(t, min, max, desc) ==
    LET start == IF ~min.present THEN buildMinKeyForType(t, max, desc)
                 ELSE buildStartKeyExclusive(t, min, desc)
        end == IF ~max.present THEN buildMaxKeyForType(t, min, desc)
               ELSE buildEndKeyExclusive(t, max, desc)
    IN  IF start.err # "nil" THEN [err |-> start.err, start |-> <<>>, end |-> <<>>]
        ELSE [err |-> end.err, start |-> start.bytes, end |-> end.bytes]

---------------------------------------------------------------------------
(* IterateOnRange.  The callback fn is [failAt, err]: its failAt-th call   *)
(* returns err (0: it never fails).  A session fault is [kind, at]:        *)
(* "open" fails Session.Iterator, "value" fails the at-th it.Value(), and  *)
(* "iter" fails the at-th positioning of the iterator (First or Last is    *)
(* the first, each Next or Prev one more), after which it is invalid and   *)
(* it.Error() reports the failure.                                         *)

NoFault == [kind |-> "none", at |-> 0]
Fault(kind, at) == [kind |-> kind, at |-> at]
NeverFails == [failAt |-> 0, err |-> "nil"]
FailsAt(n, err) == [failAt |-> n, err |-> err]

\* A Close that is the last statement of the function instead of a deferred
\* one: the returns on an error leave before it.
DeferClose_LastStatement(opened, err) == IF err = "nil" THEN opened ELSE 0

\* defer it.Close(): of the iterators the call opened, those closed when it
\* returns err; a deferred call runs on every return.
DeferClose(opened, err) == opened

\* What a call of IterateOnRange did: the error returned, the callback
\* invocations in order, the Next/Prev calls made, the iterators opened and
\* closed, and the bounds given to the session.
IterResult(err, calls, advances, opened, start, end) ==
    [err |-> err, calls |-> calls, advances |-> advances,
     opened |-> opened, closed |-> DeferClose(opened, err),
     start |-> start, end |-> end]

\* if !reverse { it.First() } else { it.Last() }
IterStart(reverse, n) == IF ~reverse THEN 1 ELSE n

\* An advance that calls Next whatever the direction.
IterAdvance_AlwaysNext(reverse, pos) == pos + 1

\* if !reverse { it.Next() } else { it.Prev() }
IterAdvance(reverse, pos) == IF ~reverse THEN pos + 1 ELSE pos - 1

\* it.Valid(), after `advances` calls of Next/Prev.
IterValid(keys, pos, advances, fault) ==
    /\ pos \in 1..Len(keys)
    /\ ~(fault.kind = "iter" /\ advances + 1 >= fault.at)

\* it.Error()
IterError(advances, fault) ==
    IF fault.kind = "iter" /\ advances + 1 >= fault.at THEN "IteratorError"
    ELSE "nil"

\* A loop that drops the callback's error.
CallbackFails_Ignored(fn, n) == FALSE

\* err = fn(&k, v); if err != nil { return err }: whether the n-th call of
\* fn returns an error.
CallbackFails(fn, n) == fn.failAt = n

\* The loop of IterateOnRange: for it.Valid() { ... }; return it.Error()
RECURSIVE IterLoop(_, _, _, _, _, _, _, _)
IterLoop(s, keys, pos, reverse, fn, fault, calls, advances) ==
    IF ~IterValid(keys, pos, advances, fault)
    THEN [err |-> IterError(advances, fault), calls |-> calls, advances |-> advances]
    ELSE IF fault.kind = "value" /\ Len(calls) + 1 = fault.at
    THEN [err |-> "ValueError", calls |-> calls, advances |-> advances]
    ELSE LET called == Append(calls, [key |-> keys[pos],
                                      v |-> IterReadValue(s[keys[pos]])])
         IN  IF CallbackFails(fn, Len(called))
             THEN [err |-> fn.err, calls |-> called, advances |-> advances]
             ELSE IterLoop(s, keys, IterAdvance(reverse, pos), reverse, fn, fault,
                           called, advances + 1)

\* A walk with the test of reverse inverted.
Walk_Inverted(s, keys, reverse, fn, fault) ==
    IterLoop(s, keys, IterStart(~reverse, Len(keys)), ~reverse, fn, fault, <<>>, 0)

\* The walk of IterateOnRange over the keys of its iterator: the positioning
\* at First or Last, then the loop.
Walk(s, keys, reverse, fn, fault) ==
    IterLoop(s, keys, IterStart(reverse, Len(keys)), reverse, fn, fault, <<>>, 0)

\* func (t *Tree) IterateOnRange(rng *Range, reverse bool, fn) error
IterateOnRange(s, t, rng0, reverse, fn, fault) ==
    LET rng == IF rng0.nil THEN Range(NilKey, NilKey, FALSE) ELSE rng0
        d == isDescRange(t, rng)
        min == IF ~d.desc THEN rng.Min ELSE rng.Max
        max == IF ~d.desc THEN rng.Max ELSE rng.Min
        b == IF ~rng.Exclusive THEN buildInclusiveBoundaries(t, min, max, d.desc)
             ELSE buildExclusiveBoundaries(t, min, max, d.desc)
    IN  IF d.panic THEN IterResult("panic", <<>>, 0, 0, <<>>, <<>>)
        ELSE IF b.err # "nil" THEN IterResult(b.err, <<>>, 0, 0, <<>>, <<>>)
        ELSE IF fault.kind = "open"
        THEN IterResult("IteratorOpenError", <<>>, 0, 0, b.start, b.end)
        ELSE LET keys == SessionIterator(s, b.start, b.end)
                 r == Walk(s, keys, reverse, fn, fault)
             IN  IterResult(r.err, r.calls, r.advances, 1, b.start, b.end)

\* A NewTransient that does not look at the error of its preflight walk.
TransientResult_Unchecked(ns, err) == [tree |-> ns, cleanup |-> ns, err |-> "nil"]

\* What NewTransient returns for the error of its preflight walk: tree and
\* cleanup are nil (0) when the walk met a key.
TransientResult(ns, err) ==
    IF err # "nil" THEN [tree |-> 0, cleanup |-> 0, err |-> err]
    ELSE [tree |-> ns, cleanup |-> ns, err |-> "nil"]

\* The walk by which NewTransient ensures the namespace is not in use: its
\* callback fails on the first key.
Preflight(s, ns, order) ==
    IterateOnRange(s, New(ns, order), NilRange, FALSE,
                   FailsAt(1, "NamespaceInUse"), NoFault)

\* func NewTransient(session, ns, order) (*Tree, func() error, error)
NewTransient(s, ns, order) == TransientResult(ns, Preflight(s, ns, order).err)

---------------------------------------------------------------------------
(* The conflict action of the table layer (spec.md 4.G).  A table's rows   *)
(* are the content s of its tree: key bytes -> row.  A []byte key is nil   *)
(* (NoValue) or its bytes (SomeValue).                                     *)

\* t.Replace(key, d): the row at key becomes d; fails where the key holds
\* no row, or with the storage error that the session injects.
TableReplace(s, key, d, fails) ==
    IF fails THEN [store |-> s, err |-> "ReplaceError"]
    ELSE IF key \notin DOMAIN s THEN [store |-> s, err |-> "KeyNotFound"]
    ELSE [store |-> [s EXCEPT ![key] = d], err |-> "nil"]

\* No document, and documentWithKey{Document: d, key: key, pk: ...}; a bare
\* d carries no key.
NoDocument == [present |-> FALSE, d |-> <<>>, key |-> NoValue]
BareDocument(d) == [present |-> TRUE, d |-> d, key |-> NoValue]
documentWithKey(d, key) == [present |-> TRUE, d |-> d, key |-> key]

\* A DoReplace that drops the conflict error when no key is known.
OnInsertConflictDoReplace_Swallow(s, key, d, err, fails) ==
    IF key.nil
    THEN [store |-> s, doc |-> BareDocument(d), err |-> "nil", replaced |-> 0]
    ELSE LET r == TableReplace(s, key.bytes, d, fails)
         IN  IF r.err # "nil"
             THEN [store |-> r.store, doc |-> NoDocument, err |-> r.err, replaced |-> 1]
             ELSE [store |-> r.store, doc |-> documentWithKey(d, key), err |-> "nil",
                   replaced |-> 1]

\* func OnInsertConflictDoReplace(t *Table, key []byte, d document.Document,
\* err error) (document.Document, error); replaced counts its calls of
\* t.Replace.
OnInsertConflictDoReplace(s, key, d, err, fails) ==
    IF key.nil
    THEN [store |-> s, doc |-> BareDocument(d), err |-> err, replaced |-> 0]
    ELSE LET r == TableReplace(s, key.bytes, d, fails)
         IN  IF r.err # "nil"
             THEN [store |-> r.store, doc |-> NoDocument, err |-> r.err, replaced |-> 1]
             ELSE [store |-> r.store, doc |-> documentWithKey(d, key), err |-> "nil",
                   replaced |-> 1]

---------------------------------------------------------------------------
(* The trees and the inputs of the calls.                                  *)

Namespaces == {1, 2, 3}

\* Namespace 2 sorts its component 0 in descending order, namespace 4 its
\* component 1; the other trees sort every component in ascending order.
OrderOf(ns) ==
    IF ns = 2 THEN SetDesc({}, 0).order
    ELSE IF ns = 4 THEN SetDesc({}, 1).order
    ELSE {}

TreeOf(ns) == New(ns, OrderOf(ns))

\* The encoded form of a key of the tree of namespace ns.
Enc(ns, key) == KeyEncode(key, ns, OrderOf(ns)).bytes

\* Component values of the keys.
Comps == {1, 2}

\* The full keys of a tree: namespace 1 holds keys of two components, the
\* others keys of one.
KeysOf(ns) ==
    IF ns = 1 THEN {NewKey(<<IntValue(a), IntValue(b)>>) : a \in Comps, b \in Comps}
    ELSE {NewKey(<<IntValue(a)>>) : a \in Comps}

\* The keys the reads and writes of Spec are made on: two of each tree.
CrudKeys(ns) ==
    IF ns = 1 THEN {NewKey(<<IntValue(1), IntValue(b)>>) : b \in Comps}
    ELSE KeysOf(ns)

\* Values written: the empty value, "a" and "b".
Values == {<<>>, <<97>>, <<98>>}

\* The trees the range calls are made on, and what is written to them.
RangeNamespaces == {1}
RangeValues == {<<>>, <<97>>}

\* The keys written to such a tree: (1,1), (1,2) and (2,1).
RangeKeys(ns) ==
    {k \in KeysOf(ns) : k # NewKey(<<IntValue(2), IntValue(2)>>)}

\* Bounds of a range: absent, a full key, the partial key (1,), the empty key.
RangeBounds(ns) ==
    {NilKey} \cup RangeKeys(ns) \cup {NewKey(<<IntValue(1)>>), NewKey(<<>>)}

Ranges(ns) ==
    {NilRange} \cup {Range(a, b, e) : a \in RangeBounds(ns), b \in RangeBounds(ns),
                                     e \in BOOLEAN}

\* The faults a session injects, and the callbacks that fail.
Faults ==
    {Fault("open", 0)}
        \cup {Fault("value", n) : n \in 1..MaxKeys}
        \cup {Fault("iter", n) : n \in 1..(MaxKeys + 1)}
Callbacks == {FailsAt(n, "CallbackError") : n \in 1..MaxKeys}

\* The ranges walked with a fault or a failing callback.
FaultRanges == {NilRange}

\* The trees of SpecTyped: keys of two components all ascending (1), of
\* one descending component (2), and of two components of which the second
\* is descending (4).
TypedNamespaces == {1, 2, 4}

\* The keys written there hold integers and texts: (1,10), (1,20), (2,5),
\* (1,"t") and ("t",5) in tree 1, (1) and ("t") in tree 2, (1,10) and
\* (1,"t") in tree 4.
TypedKeys(ns) ==
    IF ns = 1
    THEN {NewKey(<<IntValue(1), IntValue(10)>>), NewKey(<<IntValue(1), IntValue(20)>>),
          NewKey(<<IntValue(2), IntValue(5)>>), NewKey(<<IntValue(1), TextValue(116)>>),
          NewKey(<<TextValue(116), IntValue(5)>>)}
    ELSE IF ns = 2
    THEN {NewKey(<<IntValue(1)>>), NewKey(<<TextValue(116)>>)}
    ELSE {NewKey(<<IntValue(1), IntValue(10)>>), NewKey(<<IntValue(1), TextValue(116)>>)}

\* The keys given as the bound of a range there: the keys written and their
\* prefixes of one component.
TypedBounds(ns) ==
    TypedKeys(ns) \cup {NewKey(<<k.values[1]>>) : k \in TypedKeys(ns)}

\* Inclusive ranges of one bound, and the range of the prefix (1,) alone.
TypedRanges(ns) ==
    {Range(a, NilKey, FALSE) : a \in TypedBounds(ns)}
        \cup {Range(NilKey, b, FALSE) : b \in TypedBounds(ns)}
        \cup {Range(NewKey(<<IntValue(1)>>), NewKey(<<IntValue(1)>>), FALSE)}

\* The tree of SpecDesc is the tree of one descending component; its keys
\* are the integers (1) to (4), each written with its digit as the value.
DescNamespaces == {2}
DescComps == 1..4
DescKey(n) == NewKey(<<IntValue(n)>>)
Digit(n) == <<48 + n>>

\* The indices given to IsDesc, SetDesc and SetAsc in SpecOrder: both ends
\* of [0, 63], and the indices next to it on either side.
OrderIndices == {-1, 0, 1, 2, 62, 63, 64}

\* The table of SpecConflict is the tree of namespace 3; the conflicts the
\* table layer reports, and the rows written: "a" and "b".
ConflictNamespaces == {3}
ConflictErrors == {"KeyAlreadyExists", "IndexDuplicateValue"}
Rows == {<<97>>, <<98>>}

\* The trees of SpecDir have a descending last component: tree 2 holds the
\* keys (1), (2), (3) and tree 4 the keys (1,10), (1,20), (2,5).
DirNamespaces == {2, 4}
DirKeys(ns) ==
    IF ns = 2 THEN {NewKey(<<IntValue(n)>>) : n \in 1..3}
    ELSE {NewKey(<<IntValue(1), IntValue(10)>>), NewKey(<<IntValue(1), IntValue(20)>>),
          NewKey(<<IntValue(2), IntValue(5)>>)}

\* The ranges walked there: both bounds a full key, in either order.
DirRanges(ns) ==
    {Range(a, b, e) : a \in DirKeys(ns), b \in DirKeys(ns), e \in BOOLEAN}

\* The trees of SpecPrefix, one ascending and one with a descending
\* component 0, hold the keys (1,), (1,1), (2,1) and (3,1); the bounds of
\* the ranges walked there are partial keys: (1,) and (2,), or absent.
PrefixNamespaces == {1, 2}
PrefixKeys ==
    {NewKey(<<IntValue(1)>>)} \cup {NewKey(<<IntValue(a), IntValue(1)>>) : a \in 1..3}
PrefixBounds == {NewKey(<<IntValue(1)>>), NewKey(<<IntValue(2)>>)}
PrefixRanges ==
    {Range(a, b, e) : a \in PrefixBounds \cup {NilKey}, b \in PrefixBounds \cup {NilKey},
                      e \in BOOLEAN}

\* The keys of each tree in SpecWhole: the empty key, an integer and a text.
WholeKeys == {NewKey(<<>>), NewKey(<<IntValue(1)>>), NewKey(<<TextValue(116)>>)}

\* The ranges of a whole namespace: no range, and a Range without bounds.
WholeRanges == {NilRange} \cup {Range(NilKey, NilKey, e) : e \in BOOLEAN}

\* The tree of SpecValue and the values written to it: empty, 0x00 alone,
\* 0x00 followed by "a", "a", and "a" followed by 0x00.
ValueNamespaces == {3}
StoredValues == {<<>>, <<0>>, <<0, 97>>, <<97>>, <<97, 0>>}

\* The trees walked in SpecIter, and the ranges walked there: the whole
\* namespace, a range of two full keys, and a range whose bounds cannot be
\* built (an empty key as its only bound).
IterNamespaces == {1, 2}
IterRanges(ns) ==
    {NilRange, Range(NilKey, NilKey, TRUE), Range(NewKey(<<>>), NilKey, FALSE)}
        \cup {Range(a, b, FALSE) : a \in CrudKeys(ns), b \in CrudKeys(ns)}

\* The encoded keys of namespace ns held by s.
NsKeys(s, ns) ==
    {k \in DOMAIN s : Len(k) >= 2 /\ SubSeq(k, 1, 2) = EncodeInt(ns)}

EmptyStore == [k \in {} |-> <<>>]
NoHandle == [ns |-> 0, calls |-> 0]

---------------------------------------------------------------------------
(* The calls, as steps.                                                    *)

Init ==
    /\ store = EmptyStore
    /\ last = [op |-> "none"]
    /\ handle = NoHandle
    /\ open = 0

CallInsert(ns, key, value) ==
    LET r == Insert(store, TreeOf(ns), key, value)
    IN  /\ Cardinality(DOMAIN r.store) <= MaxKeys
        /\ store' = r.store
        /\ last' = [op |-> "Insert", ns |-> ns, key |-> key, value |-> value,
                    err |-> r.err, had |-> Exists(store, TreeOf(ns), key).ok]
        /\ UNCHANGED <<handle, open>>

CallPut(ns, key, value) ==
    LET r == Put(store, TreeOf(ns), key, value)
    IN  /\ Cardinality(DOMAIN r.store) <= MaxKeys
        /\ store' = r.store
        /\ last' = [op |-> "Put", ns |-> ns, key |-> key, value |-> value,
                    err |-> r.err, had |-> Exists(store, TreeOf(ns), key).ok]
        /\ UNCHANGED <<handle, open>>

CallGet(ns, key) ==
    LET r == Get(store, TreeOf(ns), key)
    IN  /\ last' = [op |-> "Get", ns |-> ns, key |-> key, v |-> r.v, err |-> r.err]
        /\ UNCHANGED <<store, handle, open>>

CallExists(ns, key) ==
    LET r == Exists(store, TreeOf(ns), key)
    IN  /\ last' = [op |-> "Exists", ns |-> ns, key |-> key, ok |-> r.ok,
                    err |-> r.err]
        /\ UNCHANGED <<store, handle, open>>

CallDelete(ns, key) ==
    LET r == Delete(store, TreeOf(ns), key)
    IN  /\ store' = r.store
        /\ last' = [op |-> "Delete", ns |-> ns, key |-> key, err |-> r.err]
        /\ UNCHANGED <<handle, open>>

CallTruncate(ns) ==
    LET r == Truncate(store, TreeOf(ns))
    IN  /\ store' = r.store
        /\ last' = [op |-> "Truncate", ns |-> ns, err |-> r.err,
                    deleted |-> Cardinality(DOMAIN store \ DOMAIN r.store)]
        /\ UNCHANGED <<handle, open>>

CallIterateOnRange(ns, rng, reverse, fn, fault) ==
    LET r == IterateOnRange(store, TreeOf(ns), rng, reverse, fn, fault)
    IN  /\ last' = [op |-> "IterateOnRange", ns |-> ns, rng |-> rng,
                    reverse |-> reverse, fn |-> fn, fault |-> fault, res |-> r]
        /\ open' = open + r.opened - r.closed
        /\ UNCHANGED <<store, handle>>

\* The caller of NewTransient keeps the cleanup handle it is given; it is
\* the preflight walk of the call.
KeepHandle(ns, r, it) ==
    /\ last' = [op |-> "NewTransient", ns |-> ns, tree |-> r.tree,
                cleanup |-> r.cleanup, err |-> r.err, opened |-> it.opened]
    /\ handle' = IF r.err = "nil" THEN [ns |-> r.cleanup, calls |-> 0] ELSE handle
    /\ open' = open + it.opened - it.closed
    /\ UNCHANGED store

CallNewTransient(ns) ==
    KeepHandle(ns, NewTransient(store, ns, OrderOf(ns)),
               Preflight(store, ns, OrderOf(ns)))

\* An invocation of the cleanup handle, which is t.Truncate of the tree
\* that NewTransient built.
CallCleanup ==
    /\ handle.ns # 0
    /\ handle.calls < MaxCalls
    /\ LET r == Truncate(store, TreeOf(handle.ns))
       IN  /\ store' = r.store
           /\ last' = [op |-> "Cleanup", ns |-> handle.ns, nth |-> handle.calls + 1,
                       err |-> r.err,
                       deleted |-> Cardinality(DOMAIN store \ DOMAIN r.store)]
    /\ handle' = [handle EXCEPT !.calls = @ + 1]
    /\ UNCHANGED open

\* The SortOrder a caller builds, one call on the result of the other
\* (o = o.SetDesc(i)), from the zero value.
OrderOps == {"IsDesc", "SetDesc", "SetAsc"}
CurrentOrder == IF last.op \in OrderOps THEN last.order ELSE {}

CallIsDesc(i) ==
    LET r == IsDesc(CurrentOrder, i)
    IN  /\ last' = [op |-> "IsDesc", o |-> CurrentOrder, i |-> i, panic |-> r.panic,
                    desc |-> r.desc, order |-> CurrentOrder]
        /\ UNCHANGED <<store, handle, open>>

CallSetDesc(i) ==
    LET r == SetDesc(CurrentOrder, i)
    IN  /\ last' = [op |-> "SetDesc", o |-> CurrentOrder, i |-> i, panic |-> r.panic,
                    desc |-> FALSE, order |-> r.order]
        /\ UNCHANGED <<store, handle, open>>

CallSetAsc(i) ==
    LET r == SetAsc(CurrentOrder, i)
    IN  /\ last' = [op |-> "SetAsc", o |-> CurrentOrder, i |-> i, panic |-> r.panic,
                    desc |-> FALSE, order |-> r.order]
        /\ UNCHANGED <<store, handle, open>>

\* The table layer calls the conflict action with the key of the row in
\* conflict, or with no key when a unique index reported the conflict.
CallDoReplace(ns, key, d, err, fails) ==
    LET r == OnInsertConflictDoReplace(store, key, d, err, fails)
    IN  /\ key.nil \/ key.bytes \in DOMAIN store
        /\ store' = r.store
        /\ last' = [op |-> "DoReplace", ns |-> ns, rawkey |-> key, d |-> d, err |-> err,
                    fails |-> fails, doc |-> r.doc, rerr |-> r.err,
                    replaced |-> r.replaced]
        /\ UNCHANGED <<handle, open>>

\* The tree's reads and writes on the trees of three namespaces.
Next ==
    \/ \E ns \in Namespaces : \E key \in CrudKeys(ns), value \in Values :
           CallInsert(ns, key, value)
    \/ \E ns \in Namespaces : \E key \in CrudKeys(ns), value \in Values :
           CallPut(ns, key, value)
    \/ \E ns \in Namespaces : \E key \in CrudKeys(ns) : CallGet(ns, key)
    \/ \E ns \in Namespaces : \E key \in CrudKeys(ns) : CallExists(ns, key)
    \/ \E ns \in Namespaces : \E key \in CrudKeys(ns) : CallDelete(ns, key)
    \/ \E ns \in Namespaces : CallTruncate(ns)

Spec == Init /\ [][Next]_vars

\* Transient trees: writes, NewTransient and the cleanup handle.
NextTransient ==
    \/ \E ns \in Namespaces : \E key \in KeysOf(ns) : CallInsert(ns, key, <<97>>)
    \/ \E ns \in Namespaces : CallNewTransient(ns)
    \/ CallCleanup

SpecTransient == Init /\ [][NextTransient]_vars

\* Range iteration on the trees of RangeNamespaces.
NextRange ==
    \/ \E ns \in RangeNamespaces : \E key \in RangeKeys(ns), value \in RangeValues :
           CallPut(ns, key, value)
    \/ \E ns \in RangeNamespaces : \E rng \in Ranges(ns), reverse \in BOOLEAN :
           CallIterateOnRange(ns, rng, reverse, NeverFails, NoFault)
    \/ \E ns \in RangeNamespaces, rng \in FaultRanges, reverse \in BOOLEAN,
          fn \in Callbacks :
           CallIterateOnRange(ns, rng, reverse, fn, NoFault)
    \/ \E ns \in RangeNamespaces, rng \in FaultRanges, reverse \in BOOLEAN,
          fault \in Faults :
           CallIterateOnRange(ns, rng, reverse, NeverFails, fault)

SpecRange == Init /\ [][NextRange]_vars

\* The exits of IterateOnRange: walks that end, walks that a callback, a
\* read of a value or the iterator cuts, iterators that do not open, bounds
\* that are not built, and the walk inside NewTransient.
NextIter ==
    \/ \E ns \in IterNamespaces : \E key \in CrudKeys(ns) : CallPut(ns, key, <<97>>)
    \/ \E ns \in IterNamespaces : \E rng \in IterRanges(ns), reverse \in BOOLEAN :
           CallIterateOnRange(ns, rng, reverse, NeverFails, NoFault)
    \/ \E ns \in IterNamespaces, reverse \in BOOLEAN, fn \in Callbacks :
           CallIterateOnRange(ns, NilRange, reverse, fn, NoFault)
    \/ \E ns \in IterNamespaces, reverse \in BOOLEAN, fault \in Faults :
           CallIterateOnRange(ns, NilRange, reverse, NeverFails, fault)
    \/ \E ns \in IterNamespaces : CallNewTransient(ns)

SpecIter == Init /\ [][NextIter]_vars

\* Ranges of one bound on trees that hold keys of several types.
NextTyped ==
    \/ \E ns \in TypedNamespaces : \E key \in TypedKeys(ns) : CallPut(ns, key, <<97>>)
    \/ \E ns \in TypedNamespaces : \E rng \in TypedRanges(ns) :
           CallIterateOnRange(ns, rng, FALSE, NeverFails, NoFault)

SpecTyped == Init /\ [][NextTyped]_vars

\* Inserts and deletes in any order on the tree of one descending
\* component, and walks of its whole namespace.
NextDesc ==
    \/ \E ns \in DescNamespaces, n \in DescComps : CallInsert(ns, DescKey(n), Digit(n))
    \/ \E ns \in DescNamespaces, n \in DescComps : CallDelete(ns, DescKey(n))
    \/ \E ns \in DescNamespaces, reverse \in BOOLEAN :
           CallIterateOnRange(ns, NilRange, reverse, NeverFails, NoFault)

SpecDesc == Init /\ [][NextDesc]_vars

\* The operations of SortOrder on the masks they build.
NextOrder ==
    \/ \E i \in OrderIndices : CallIsDesc(i)
    \/ \E i \in OrderIndices : CallSetDesc(i)
    \/ \E i \in OrderIndices : CallSetAsc(i)

SpecOrder == Init /\ [][NextOrder]_vars

\* Inserts into a table, conflicts resolved by DoReplace, and reads.
NextConflict ==
    \/ \E ns \in ConflictNamespaces : \E key \in CrudKeys(ns), d \in Rows :
           CallInsert(ns, key, d)
    \/ \E ns \in ConflictNamespaces : \E key \in CrudKeys(ns) : CallGet(ns, key)
    \/ \E ns \in ConflictNamespaces :
           \E key \in {NoValue} \cup {SomeValue(Enc(ns, k)) : k \in CrudKeys(ns)},
              d \in Rows, err \in ConflictErrors, fails \in BOOLEAN :
               CallDoReplace(ns, key, d, err, fails)

SpecConflict == Init /\ [][NextConflict]_vars

\* Ranges of two full keys on trees with a descending last component.
NextDir ==
    \/ \E ns \in DirNamespaces : \E key \in DirKeys(ns) : CallPut(ns, key, <<97>>)
    \/ \E ns \in DirNamespaces : \E rng \in DirRanges(ns) :
           CallIterateOnRange(ns, rng, FALSE, NeverFails, NoFault)

SpecDir == Init /\ [][NextDir]_vars

\* Ranges whose bounds are partial keys.
NextPrefix ==
    \/ \E ns \in PrefixNamespaces, key \in PrefixKeys : CallPut(ns, key, <<97>>)
    \/ \E ns \in PrefixNamespaces, rng \in PrefixRanges :
           CallIterateOnRange(ns, rng, FALSE, NeverFails, NoFault)

SpecPrefix == Init /\ [][NextPrefix]_vars

\* Writes, deletes and truncates on the trees of three namespaces over one
\* session, and walks of a whole namespace.
NextWhole ==
    \/ \E ns \in Namespaces, key \in WholeKeys : CallInsert(ns, key, <<97>>)
    \/ \E ns \in Namespaces, key \in WholeKeys : CallPut(ns, key, <<97>>)
    \/ \E ns \in Namespaces, key \in WholeKeys : CallDelete(ns, key)
    \/ \E ns \in Namespaces : CallTruncate(ns)
    \/ \E ns \in Namespaces, rng \in WholeRanges, reverse \in BOOLEAN :
           CallIterateOnRange(ns, rng, reverse, NeverFails, NoFault)

SpecWhole == Init /\ [][NextWhole]_vars

\* Values of several lengths written by Insert and Put, and read by Get and
\* by a walk of the namespace.
NextValue ==
    \/ \E ns \in ValueNamespaces : \E key \in CrudKeys(ns), value \in StoredValues :
           CallInsert(ns, key, value)
    \/ \E ns \in ValueNamespaces : \E key \in CrudKeys(ns), value \in StoredValues :
           CallPut(ns, key, value)
    \/ \E ns \in ValueNamespaces : \E key \in CrudKeys(ns) : CallGet(ns, key)
    \/ \E ns \in ValueNamespaces, reverse \in BOOLEAN :
           CallIterateOnRange(ns, NilRange, reverse, NeverFails, NoFault)

SpecValue == Init /\ [][NextValue]_vars

---------------------------------------------------------------------------
(* Properties.                                                             *)

\* s1 and s2 hold the same keys with the same values outside K.
SameExcept(s1, s2, K) ==
    \A k \in (DOMAIN s1 \cup DOMAIN s2) \ K :
        k \in DOMAIN s1 /\ k \in DOMAIN s2 /\ s1[k] = s2[k]

\* A value that is read back as it was written: its first byte is not 0.
Verbatim(value) == Len(value) > 0 /\ value[1] # 0

\* The last call was made on this key of this tree.
SameKey(a, b) == a.ns = b.ns /\ a.key = b.key

\* C1: Insert on a key that is present returns KeyAlreadyExists and changes
\* no key and no value of the session; Insert on an absent key succeeds,
\* changes no other key, and Get of the key then returns the value written
\* (a value whose first byte is not 0), both as computed on the new content
\* and as returned by the next Get call.
C1_InsertRefusesDuplicate ==
    [][/\ last'.op = "Insert" =>
            LET t == TreeOf(last'.ns)
                k == Enc(last'.ns, last'.key)
            IN  IF k \in DOMAIN store
                THEN last'.err = "KeyAlreadyExists" /\ store' = store
                ELSE /\ last'.err = "nil"
                     /\ SameExcept(store, store', {k})
                     /\ Verbatim(last'.value) =>
                            Get(store', t, last'.key)
                                = [v |-> SomeValue(last'.value), err |-> "nil"]
       /\ (/\ last.op = "Insert" /\ last.err = "nil" /\ Verbatim(last.value)
           /\ last'.op = "Get" /\ SameKey(last, last'))
              => last'.v = SomeValue(last.value) /\ last'.err = "nil"
      ]_vars

\* C1's case: "b" was refused on a key that holds "a", which it still holds.
C1_Witness ==
    /\ last.op = "Insert" /\ last.err = "KeyAlreadyExists"
    /\ last.value = <<98>>
    /\ store[Enc(last.ns, last.key)] = <<97>>

\* C2: Put never fails with KeyAlreadyExists, on a present or an absent key;
\* after it Get of the key returns the value put (a value whose first byte
\* is not 0) and every other key holds what it held.
C2_PutUpserts ==
    [][/\ last'.op = "Put" =>
            LET t == TreeOf(last'.ns)
                k == Enc(last'.ns, last'.key)
            IN  /\ last'.err = "nil"
                /\ SameExcept(store, store', {k})
                /\ \A ns \in Namespaces : \A key \in KeysOf(ns) :
                       ~(ns = last'.ns /\ key = last'.key)
                           => Get(store', TreeOf(ns), key) = Get(store, TreeOf(ns), key)
                /\ Verbatim(last'.value) =>
                       Get(store', t, last'.key)
                           = [v |-> SomeValue(last'.value), err |-> "nil"]
       /\ (/\ last.op = "Put" /\ Verbatim(last.value)
           /\ last'.op = "Get" /\ SameKey(last, last'))
              => last'.v = SomeValue(last.value) /\ last'.err = "nil"
      ]_vars

\* C2's case: "b" was put on a key that was present, and is now its value.
C2_Witness ==
    /\ last.op = "Put" /\ last.had /\ last.err = "nil"
    /\ last.value = <<98>>
    /\ Get(store, TreeOf(last.ns), last.key).v = SomeValue(<<98>>)
    /\ Cardinality(DOMAIN store) > 1

\* C3: Insert or Put of an empty value stores the one byte 0x00, no stored
\* value is ever empty, and then Get of the key returns nil with no error
\* and Exists is true, both on the new content and in the next Get or
\* Exists call.
C3_EmptyValueSentinel ==
    [][/\ \A k \in DOMAIN store' : Len(store'[k]) > 0
       /\ (last'.op \in {"Insert", "Put"} /\ last'.err = "nil" /\ last'.value = <<>>)
              => LET t == TreeOf(last'.ns)
                 IN  /\ store'[Enc(last'.ns, last'.key)] = <<0>>
                     /\ Get(store', t, last'.key) = [v |-> NoValue, err |-> "nil"]
                     /\ Exists(store', t, last'.key) = [ok |-> TRUE, err |-> "nil"]
       /\ (/\ last.op \in {"Insert", "Put"} /\ last.err = "nil" /\ last.value = <<>>
           /\ last'.op = "Get" /\ SameKey(last, last'))
              => last'.v = NoValue /\ last'.err = "nil"
       /\ (/\ last.op \in {"Insert", "Put"} /\ last.err = "nil" /\ last.value = <<>>
           /\ last'.op = "Exists" /\ SameKey(last, last'))
              => last'.ok /\ last'.err = "nil"
      ]_vars

\* C3's case: Get of a key that was written with the empty value returned
\* nil with no error, and the session holds 0x00 for it.
C3_Witness ==
    /\ last.op = "Get" /\ last.v = NoValue /\ last.err = "nil"
    /\ store[Enc(last.ns, last.key)] = <<0>>

\* C7: after Truncate on the tree of namespace N a walk of the whole
\* namespace, forward or in reverse, calls the callback on no key, and the
\* keys and values of every other namespace are what they were.
C7_TruncateIsolation ==
    [][last'.op = "Truncate" =>
           LET t == TreeOf(last'.ns)
           IN  /\ last'.err = "nil"
               /\ \A reverse \in BOOLEAN :
                      LET r == IterateOnRange(store', t, NilRange, reverse,
                                              NeverFails, NoFault)
                      IN  r.err = "nil" /\ r.calls = <<>>
               /\ NsKeys(store', last'.ns) = {}
               /\ SameExcept(store, store', NsKeys(store, last'.ns))
               /\ \A ns \in Namespaces \ {last'.ns} :
                      /\ NsKeys(store', ns) = NsKeys(store, ns)
                      /\ \A key \in KeysOf(ns) :
                             Get(store', TreeOf(ns), key) = Get(store, TreeOf(ns), key)
      ]_vars

\* C7's case: namespace 2 was truncated and lost keys while namespaces 1 and
\* 3 hold keys.
C7_Witness ==
    /\ last.op = "Truncate" /\ last.ns = 2 /\ last.deleted > 0
    /\ NsKeys(store, 1) # {} /\ NsKeys(store, 3) # {}

\* The logical order of two keys of as many integer components, all
\* ascending: component by component.
KeyLT(a, b) ==
    \E i \in 1..Len(a.values) :
        /\ \A j \in 1..(i - 1) : a.values[j].v = b.values[j].v
        /\ a.values[i].v < b.values[i].v

KeyLE(a, b) == a = b \/ KeyLT(a, b)

\* The last call was a walk that no callback error and no session fault cut.
CleanWalk ==
    last.op = "IterateOnRange" /\ last.fn = NeverFails /\ last.fault = NoFault

\* The encoded keys a walk called the callback on.
Delivered(calls) == {calls[i].key : i \in 1..Len(calls)}

\* C4: on a tree whose components are all ascending, for full keys A <= B,
\* a walk of Range{Min=A, Max=B} calls the callback once on each stored key
\* K with A <= K <= B and on no other, and with Exclusive once on each
\* stored key K with A < K < B and on no other.
C4_RangeClosure ==
    (/\ CleanWalk
     /\ OrderOf(last.ns) = {}
     /\ ~last.rng.nil
     /\ last.rng.Min \in KeysOf(last.ns) /\ last.rng.Max \in KeysOf(last.ns)
     /\ KeyLE(last.rng.Min, last.rng.Max))
        => LET A == last.rng.Min
               B == last.rng.Max
               within == {K \in KeysOf(last.ns) :
                             /\ Enc(last.ns, K) \in DOMAIN store
                             /\ IF last.rng.Exclusive
                                THEN KeyLT(A, K) /\ KeyLT(K, B)
                                ELSE KeyLE(A, K) /\ KeyLE(K, B)}
           IN  /\ last.res.err = "nil"
               /\ Delivered(last.res.calls) = {Enc(last.ns, K) : K \in within}
               /\ Len(last.res.calls) = Cardinality(within)

\* C4's case: (1,1) and (1,2) are stored and the exclusive range between
\* them delivered no key.
C4_Witness ==
    /\ CleanWalk
    /\ last.rng = Range(NewKey(<<IntValue(1), IntValue(1)>>),
                        NewKey(<<IntValue(1), IntValue(2)>>), TRUE)
    /\ {Enc(last.ns, last.rng.Min), Enc(last.ns, last.rng.Max)} \subseteq DOMAIN store
    /\ last.res.calls = <<>>
    /\ last.res.opened = 1

\* C5: a walk that no error cuts delivers, in reverse, the keys and values
\* of the forward walk of the same range over the same content in the
\* opposite order, and the other way round.
C5_ReverseEquivalence ==
    CleanWalk =>
        LET other == IterateOnRange(store, TreeOf(last.ns), last.rng, ~last.reverse,
                                    NeverFails, NoFault)
        IN  /\ last.res.err = other.err
            /\ last.res.calls = Reverse(other.calls)

\* C5's case: a reverse walk delivered all three keys, the greatest first.
C5_Witness ==
    /\ CleanWalk /\ last.reverse
    /\ Len(last.res.calls) = 3
    /\ BytesLT(last.res.calls[3].key, last.res.calls[1].key)

\* C6: the keys of one walk are delivered in strictly increasing byte order
\* forward and in strictly decreasing byte order in reverse, so none twice,
\* whether or not an error cuts the walk.
C6_StrictOrder ==
    last.op = "IterateOnRange" =>
        LET calls == last.res.calls
        IN  /\ \A i \in 1..(Len(calls) - 1) :
                   IF last.reverse THEN BytesLT(calls[i + 1].key, calls[i].key)
                   ELSE BytesLT(calls[i].key, calls[i + 1].key)
            /\ Cardinality(Delivered(calls)) = Len(calls)

\* C6's case: a forward walk delivered three keys.
C6_Witness ==
    /\ last.op = "IterateOnRange" /\ ~last.reverse
    /\ Len(last.res.calls) = 3

\* The number of keys between the bounds the last walk gave to the session.
KeysInBounds == Len(SessionIterator(store, last.res.start, last.res.end))

\* C10: when the callback returns an error on its n-th call, that call is
\* the last, no Next or Prev follows it, and the walk returns that error;
\* when the n-th read of a value fails, n-1 calls were made, no Next or Prev
\* follows, and the walk returns the read's error; otherwise the walk calls
\* the callback on every key the iterator reaches and returns the
\* iterator's error, nil when it has none.
C10_ShortCircuit ==
    (last.op = "IterateOnRange" /\ last.res.opened = 1) =>
        LET n == KeysInBounds
            r == last.res
            fn == last.fn
            fault == last.fault
        IN  IF fn.failAt \in 1..n
            THEN r.err = fn.err /\ Len(r.calls) = fn.failAt
                 /\ r.advances = fn.failAt - 1
            ELSE IF fault.kind = "value" /\ fault.at \in 1..n
            THEN r.err = "ValueError" /\ Len(r.calls) = fault.at - 1
                 /\ r.advances = fault.at - 1
            ELSE IF fault.kind = "iter" /\ fault.at \in 1..(n + 1)
            THEN r.err = "IteratorError" /\ Len(r.calls) = fault.at - 1
                 /\ r.advances = fault.at - 1
            ELSE r.err = "nil" /\ Len(r.calls) = n /\ r.advances = n

\* C10's case: the callback failed on its second call of three keys in
\* range; the third was not delivered.
C10_Witness ==
    /\ last.op = "IterateOnRange"
    /\ last.fn.failAt = 2 /\ KeysInBounds = 3
    /\ last.res.err = "CallbackError"
    /\ Len(last.res.calls) = 2 /\ last.res.advances = 1

\* C8: NewTransient on a namespace that holds a key fails with the
\* namespace-in-use error, returns neither a tree nor a cleanup handle and
\* changes nothing; on an empty namespace it succeeds and returns both; and
\* after any invocation of the handle, whatever was inserted since, the
\* namespace holds no key.
C8_TransientPreflight ==
    [][/\ last'.op = "NewTransient" =>
            /\ store' = store
            /\ IF NsKeys(store, last'.ns) # {}
               THEN /\ last'.err = "NamespaceInUse"
                    /\ last'.tree = 0 /\ last'.cleanup = 0
                    /\ handle' = handle
               ELSE /\ last'.err = "nil"
                    /\ last'.tree = last'.ns /\ last'.cleanup = last'.ns
                    /\ handle' = [ns |-> last'.ns, calls |-> 0]
       /\ last'.op = "Cleanup" =>
            /\ last'.ns = handle.ns /\ last'.err = "nil"
            /\ NsKeys(store', last'.ns) = {}
            /\ IterateOnRange(store', TreeOf(last'.ns), NilRange, FALSE,
                              NeverFails, NoFault).calls = <<>>
      ]_vars

\* C8's case: NewTransient was refused on a namespace that holds keys,
\* while the handle of an earlier transient tree of another namespace is
\* still held.
C8_Witness ==
    /\ last.op = "NewTransient" /\ last.err = "NamespaceInUse"
    /\ last.tree = 0 /\ last.cleanup = 0
    /\ NsKeys(store, last.ns) # {}
    /\ handle.ns # 0 /\ handle.ns # last.ns

\* C9 as stated: the second and later invocations of a cleanup handle
\* delete nothing and leave the session as the first invocation left it,
\* whatever was written to the namespace in between.
C9_CleanupOnlyOnce ==
    [][(last'.op = "Cleanup" /\ last'.nth >= 2) => store' = store]_vars

\* C9, amended: every invocation of a cleanup handle is a Truncate of its
\* namespace: it leaves the namespace empty, deleting the keys written
\* since the invocation before, and leaves every other namespace as it was;
\* an invocation that directly follows another one changes nothing.
C9_CleanupTruncatesEachTime ==
    [][last'.op = "Cleanup" =>
           /\ last'.err = "nil"
           /\ NsKeys(store', last'.ns) = {}
           /\ last'.deleted = Cardinality(NsKeys(store, last'.ns))
           /\ SameExcept(store, store', NsKeys(store, last'.ns))
           /\ (last.op = "Cleanup" => store' = store)
      ]_vars

\* C9's case: the second invocation of a handle deleted a key that was
\* written after the first, and another namespace holds a key.
C9_Witness ==
    /\ last.op = "Cleanup" /\ last.nth = 2 /\ last.deleted > 0
    /\ store # EmptyStore

\* C11: no iterator of the session is open between calls, after any
\* sequence of IterateOnRange and NewTransient calls.  A call of
\* IterateOnRange closes each iterator it opened before it returns, whether
\* the walk ends, the callback fails, a read of a value fails or the
\* iterator fails; it opens one iterator, and none when the bounds are not
\* built or when the session does not open the iterator.  NewTransient opens
\* one iterator and leaves none open.
C11_IteratorClosed ==
    /\ open = 0
    /\ last.op = "IterateOnRange" =>
           /\ last.res.closed = last.res.opened
           /\ last.res.opened =
                  IF last.res.err = "panic" \/ last.fault.kind = "open" THEN 0 ELSE 1
    /\ last.op = "NewTransient" => last.opened = 1

\* C11's case: the callback failed on the second of three keys and the one
\* iterator of the walk was closed.
C11_Witness ==
    /\ last.op = "IterateOnRange"
    /\ last.fn.failAt = 2 /\ last.res.err = "CallbackError"
    /\ Len(last.res.calls) = 2
    /\ last.res.opened = 1 /\ last.res.closed = 1
    /\ open = 0

\* The keys of the calls of a walk, in the order of the calls.
KeysOfCalls(calls) == [i \in 1..Len(calls) |-> calls[i].key]

\* The stored keys a range of the one bound G is to deliver: those that
\* have the first n-1 components of G, an n-th component of the type of
\* G's n-th, and that n-th component at or above G's for a Min, at or below
\* it for a Max; n is the arity of G.
OpenBoundKeys(s, ns, G, isMin) ==
    LET n == Len(G.values)
    IN  {K \in TypedKeys(ns) :
            /\ Enc(ns, K) \in DOMAIN s
            /\ Len(K.values) >= n
            /\ \A j \in 1..(n - 1) : K.values[j] = G.values[j]
            /\ K.values[n].type = G.values[n].type
            /\ IF isMin THEN K.values[n].v >= G.values[n].v
               ELSE K.values[n].v <= G.values[n].v}

S5Keys ==
    <<NewKey(<<IntValue(1), IntValue(10)>>), NewKey(<<IntValue(1), IntValue(20)>>),
      NewKey(<<IntValue(2), IntValue(5)>>)>>

\* C12: an inclusive range of which only Min or only Max is given, as a key
\* G of arity n >= 1, delivers once each stored key that has G's first n-1
\* components, an n-th component of the type of G's n-th, and that
\* component >= G's for a Min and <= G's for a Max, and no other key: none
\* whose n-th component is of another type.  On the keys (1,10), (1,20),
\* (2,5) of an ascending tree, Range{Min=(1,)} delivers (1,10), (1,20),
\* (2,5) in that order and Range{Min=(1,), Max=(1,)} delivers (1,10), (1,20).
C12_TypeAwareOpenBounds ==
    (CleanWalk /\ ~last.rng.nil /\ ~last.rng.Exclusive) =>
        LET ns == last.ns
            min == last.rng.Min
            max == last.rng.Max
            S5 == /\ ns = 1 /\ ~last.reverse
                  /\ DOMAIN store = {Enc(ns, S5Keys[i]) : i \in 1..3}
        IN  /\ (min.present /\ ~max.present /\ Len(min.values) >= 1) =>
                   LET within == OpenBoundKeys(store, ns, min, TRUE)
                   IN  /\ last.res.err = "nil"
                       /\ Delivered(last.res.calls) = {Enc(ns, K) : K \in within}
                       /\ Len(last.res.calls) = Cardinality(within)
            /\ (max.present /\ ~min.present /\ Len(max.values) >= 1) =>
                   LET within == OpenBoundKeys(store, ns, max, FALSE)
                   IN  /\ last.res.err = "nil"
                       /\ Delivered(last.res.calls) = {Enc(ns, K) : K \in within}
                       /\ Len(last.res.calls) = Cardinality(within)
            /\ (S5 /\ last.rng = Range(NewKey(<<IntValue(1)>>), NilKey, FALSE)) =>
                   KeysOfCalls(last.res.calls) = [i \in 1..3 |-> Enc(ns, S5Keys[i])]
            /\ (S5 /\ last.rng = Range(NewKey(<<IntValue(1)>>),
                                       NewKey(<<IntValue(1)>>), FALSE)) =>
                   KeysOfCalls(last.res.calls) = [i \in 1..2 |-> Enc(ns, S5Keys[i])]

\* C12's case: (1,10), (1,"t") and (2,5) are stored in the ascending tree
\* and Range{Min=(1,10)} delivered (1,10) alone: not the text key, not the
\* key of another first component.
C12_Witness ==
    /\ CleanWalk /\ last.ns = 1
    /\ last.rng = Range(NewKey(<<IntValue(1), IntValue(10)>>), NilKey, FALSE)
    /\ DOMAIN store = {Enc(1, NewKey(<<IntValue(1), IntValue(10)>>)),
                       Enc(1, NewKey(<<IntValue(1), TextValue(116)>>)),
                       Enc(1, NewKey(<<IntValue(2), IntValue(5)>>))}
    /\ KeysOfCalls(last.res.calls) = <<Enc(1, NewKey(<<IntValue(1), IntValue(10)>>))>>

\* The integers n whose key (n) the tree of namespace ns holds in s.
StoredComps(s, ns) == {n \in DescComps : Enc(ns, DescKey(n)) \in DOMAIN s}

\* The values of the calls of a walk, in the order of the calls.
ValuesOfCalls(calls) == [i \in 1..Len(calls) |-> calls[i].v]

\* C13: in a tree whose SortOrder has bit 63 set, a forward walk of the
\* whole namespace delivers the stored integer keys of one component, each
\* once with its value, in decreasing order of the integer, and a reverse
\* walk in increasing order; with (1), (2), (3) stored under the values
\* "1", "2", "3" the forward walk delivers "3", "2", "1".
C13_DescendingComponent ==
    (CleanWalk /\ last.rng.nil /\ 63 \in OrderOf(last.ns)) =>
        LET ns == last.ns
            calls == last.res.calls
            stored == StoredComps(store, ns)
            at(i) == CHOOSE n \in DescComps : Enc(ns, DescKey(n)) = calls[i].key
        IN  /\ last.res.err = "nil"
            /\ Len(calls) = Cardinality(stored)
            /\ \A i \in 1..Len(calls) :
                   /\ \E n \in stored : Enc(ns, DescKey(n)) = calls[i].key
                   /\ calls[i].v = SomeValue(Digit(at(i)))
            /\ \A i \in 1..(Len(calls) - 1) :
                   IF last.reverse THEN at(i) < at(i + 1) ELSE at(i) > at(i + 1)
            /\ (stored = {1, 2, 3} /\ ~last.reverse) =>
                   ValuesOfCalls(calls)
                       = <<SomeValue(<<51>>), SomeValue(<<50>>), SomeValue(<<49>>)>>

\* C13's case: the forward walk of the descending tree delivered "3", "2",
\* "1".
C13_Witness ==
    /\ CleanWalk /\ last.rng.nil /\ ~last.reverse
    /\ 63 \in OrderOf(last.ns)
    /\ StoredComps(store, last.ns) = {1, 2, 3}
    /\ ValuesOfCalls(last.res.calls)
           = <<SomeValue(<<51>>), SomeValue(<<50>>), SomeValue(<<49>>)>>

\* C14 as stated: IsDesc(i), SetDesc(i) and SetAsc(i) panic for every index
\* outside [0, 63], above 63 or negative, and return nothing for it.
C14_IndexValidated ==
    (last.op \in OrderOps /\ last.i \notin 0..63) => last.panic

\* C19: for every mask o that the operations build and every index i in
\* [0, 63]: SetDesc(i) and SetAsc(i) do not panic; after SetDesc(i),
\* IsDesc(i) is true and after SetAsc(i) it is false; IsDesc(j) is what it
\* was for every other j in [0, 63]; the bit written is bit 63-i and no
\* other bit changes; SetDesc(i) and SetAsc(i) applied again change
\* nothing; IsDesc(i) is true exactly when bit 63-i is set; and the zero
\* mask reports every component as ascending.
C19_BitAlgebra ==
    /\ \A j \in 0..63 : IsDesc({}, j) = [panic |-> FALSE, desc |-> FALSE]
    /\ (last.op \in OrderOps /\ last.i \in 0..63) =>
           LET o == last.o
               i == last.i
               r == last.order
           IN  /\ ~last.panic
               /\ \A b \in r : b \in 0..63
               /\ last.op = "IsDesc" =>
                      /\ last.desc = ((63 - i) \in o)
                      /\ r = o
               /\ last.op = "SetDesc" =>
                      /\ IsDesc(r, i) = [panic |-> FALSE, desc |-> TRUE]
                      /\ r = o \cup {63 - i}
                      /\ SetDesc(r, i) = [panic |-> FALSE, order |-> r]
               /\ last.op = "SetAsc" =>
                      /\ IsDesc(r, i) = [panic |-> FALSE, desc |-> FALSE]
                      /\ r = o \ {63 - i}
                      /\ SetAsc(r, i) = [panic |-> FALSE, order |-> r]
               /\ \A j \in (0..63) \ {i} : IsDesc(r, j) = IsDesc(o, j)

\* C19's case: SetAsc(1) cleared bit 62 of a mask that holds bits 63, 62
\* and 0, which are components 0, 1 and 63.
C19_Witness ==
    /\ last.op = "SetAsc" /\ last.i = 1
    /\ last.o = {0, 62, 63} /\ last.order = {0, 63}
    /\ ~last.panic

\* C15: OnInsertConflictDoReplace called with no key calls Replace not at
\* all, leaves the table as it is and returns the conflict error it was
\* given.  Called with a key it calls Replace(key, row) once; when Replace
\* succeeds it returns the row bound to that key and no error, the table
\* holds the row at the key and every other row is unchanged, and the next
\* Get of the key returns the row; when Replace fails it returns no row and
\* the error of Replace.
C15_DoReplace ==
    [][/\ last'.op = "DoReplace" =>
            IF last'.rawkey.nil
            THEN /\ last'.replaced = 0
                 /\ store' = store
                 /\ last'.rerr = last'.err
            ELSE /\ last'.replaced = 1
                 /\ IF last'.fails
                    THEN /\ last'.doc = NoDocument
                         /\ last'.rerr = "ReplaceError"
                         /\ store' = store
                    ELSE /\ last'.rerr = "nil"
                         /\ last'.doc = documentWithKey(last'.d, last'.rawkey)
                         /\ store'[last'.rawkey.bytes] = last'.d
                         /\ SameExcept(store, store', {last'.rawkey.bytes})
                         /\ \A k \in CrudKeys(last'.ns) :
                                Enc(last'.ns, k) = last'.rawkey.bytes =>
                                    Get(store', TreeOf(last'.ns), k)
                                        = [v |-> SomeValue(last'.d), err |-> "nil"]
       /\ (/\ last.op = "DoReplace" /\ ~last.rawkey.nil /\ last.rerr = "nil"
           /\ last'.op = "Get" /\ last'.ns = last.ns
           /\ Enc(last'.ns, last'.key) = last.rawkey.bytes)
              => last'.v = SomeValue(last.d) /\ last'.err = "nil"
      ]_vars

\* C15's case: a key holds the row "a" after an Insert, and DoReplace with
\* that key and the row "b" returned "b" bound to the key; the table holds
\* "b" there.
C15_Witness ==
    /\ last.op = "DoReplace" /\ ~last.rawkey.nil
    /\ last.err = "KeyAlreadyExists" /\ last.d = <<98>>
    /\ last.rerr = "nil" /\ last.doc = documentWithKey(<<98>>, last.rawkey)
    /\ store[last.rawkey.bytes] = <<98>>

\* The direction of a range as the claim C16 gives it.
RangeDirection(ns, rng) ==
    IF rng.Min.present THEN IsDesc(OrderOf(ns), Len(rng.Min.values) - 1).desc
    ELSE IF rng.Max.present THEN IsDesc(OrderOf(ns), Len(rng.Max.values) - 1).desc
    ELSE FALSE

\* C16 as stated: on a tree whose last component is descending, a range
\* {Min=A, Max=B} of full keys with A <= B in the order of their values has
\* the direction of A's last component, descending; the bounds given to the
\* session are those built from B as the lower and A as the upper key; the
\* walk delivers exactly the stored keys K with A <= K <= B, or A < K < B
\* when exclusive; and the lower byte bound is not above the upper one
\* (but for the exclusive range of A = B, whose bounds are A with the 0xFF
\* suffix and A on any tree).
C16_RangeDirection ==
    (/\ CleanWalk /\ ~last.rng.nil
     /\ last.ns \in DirNamespaces
     /\ last.rng.Min \in DirKeys(last.ns) /\ last.rng.Max \in DirKeys(last.ns)
     /\ KeyLE(last.rng.Min, last.rng.Max))
        => LET ns == last.ns
               A == last.rng.Min
               B == last.rng.Max
               swapped == IF last.rng.Exclusive
                          THEN buildExclusiveBoundaries(TreeOf(ns), B, A, TRUE)
                          ELSE buildInclusiveBoundaries(TreeOf(ns), B, A, TRUE)
               within == {K \in DirKeys(ns) :
                             /\ Enc(ns, K) \in DOMAIN store
                             /\ IF last.rng.Exclusive
                                THEN KeyLT(A, K) /\ KeyLT(K, B)
                                ELSE KeyLE(A, K) /\ KeyLE(K, B)}
           IN  /\ RangeDirection(ns, last.rng)
               /\ last.res.err = "nil"
               /\ last.res.start = swapped.start /\ last.res.end = swapped.end
               /\ Delivered(last.res.calls) = {Enc(ns, K) : K \in within}
               /\ Len(last.res.calls) = Cardinality(within)
               /\ (~last.rng.Exclusive \/ A # B) =>
                      BytesLE(last.res.start, last.res.end)

\* C17 as stated: a range whose only bound is the empty key, as Min or as
\* Max, is ascending, and a walk of it returns no failure and delivers
\* every key of the namespace, from the least key on when forward.
C17_EmptyKeyRange ==
    (/\ CleanWalk /\ ~last.rng.nil
     /\ \/ last.rng.Min = NewKey(<<>>) /\ ~last.rng.Max.present
        \/ ~last.rng.Min.present /\ last.rng.Max = NewKey(<<>>))
        => LET all == SortKeys(NsKeys(store, last.ns))
           IN  /\ ~RangeDirection(last.ns, last.rng)
               /\ last.res.err = "nil"
               /\ KeysOfCalls(last.res.calls)
                      = IF last.reverse THEN Reverse(all) ELSE all

\* The key K has the key P as a prefix: P's components are K's first ones.
HasPrefix(K, P) ==
    /\ Len(K.values) >= Len(P.values)
    /\ \A j \in 1..Len(P.values) : K.values[j] = P.values[j]

\* The keys of PrefixKeys that the last walk delivered.
DeliveredPrefixKeys ==
    {K \in PrefixKeys : Enc(last.ns, K) \in Delivered(last.res.calls)}

\* C18: with partial keys as bounds, an inclusive range of Max P (and a Min
\* that is absent or not above P) delivers every stored key that has P as a
\* prefix; an exclusive range of Min P delivers neither P nor any key that
\* has P as a prefix; an exclusive range of Max Q delivers no key that has
\* Q as a prefix; so Range{Min=(1,), Max=(2,), Exclusive=true} delivers no
\* key whose first component is 1 or 2.
C18_PrefixSemantics ==
    (CleanWalk /\ ~last.rng.nil /\ last.ns \in PrefixNamespaces
     /\ last.rng.Min \in PrefixBounds \cup {NilKey}
     /\ last.rng.Max \in PrefixBounds \cup {NilKey}) =>
        LET min == last.rng.Min
            max == last.rng.Max
            stored == {K \in PrefixKeys : Enc(last.ns, K) \in DOMAIN store}
        IN  /\ last.res.err = "nil"
            /\ (/\ ~last.rng.Exclusive /\ max.present
                /\ (min.present => min.values[1].v <= max.values[1].v)) =>
                   \A K \in stored : HasPrefix(K, max) => K \in DeliveredPrefixKeys
            /\ (last.rng.Exclusive /\ min.present) =>
                   \A K \in DeliveredPrefixKeys : ~HasPrefix(K, min)
            /\ (last.rng.Exclusive /\ max.present) =>
                   \A K \in DeliveredPrefixKeys : ~HasPrefix(K, max)
            /\ last.rng = Range(NewKey(<<IntValue(1)>>), NewKey(<<IntValue(2)>>), TRUE) =>
                   \A K \in DeliveredPrefixKeys : K.values[1].v \notin {1, 2}

\* C18's case: (1,), (1,1) and (2,1) are stored in the ascending tree and
\* the exclusive range of Min (1,) delivered (2,1) alone.
C18_Witness ==
    /\ CleanWalk /\ last.ns = 1
    /\ last.rng = Range(NewKey(<<IntValue(1)>>), NilKey, TRUE)
    /\ DOMAIN store = {Enc(1, NewKey(<<IntValue(1)>>)),
                       Enc(1, NewKey(<<IntValue(1), IntValue(1)>>)),
                       Enc(1, NewKey(<<IntValue(2), IntValue(1)>>))}
    /\ DeliveredPrefixKeys = {NewKey(<<IntValue(2), IntValue(1)>>)}

\* C20: a walk with no range, or with a Range of no bound, inclusive or
\* exclusive, on the tree of namespace N delivers once each key that the
\* session holds for N, the empty key and the keys of either type among
\* them, and no key of another namespace, whatever was inserted, put,
\* deleted and truncated on the trees of the three namespaces.
C20_WholeNamespace ==
    (/\ CleanWalk
     /\ ~last.rng.Min.present /\ ~last.rng.Max.present
     /\ last.ns \in Namespaces) =>
        LET N == last.ns
            mine == {Enc(N, K) : K \in {k \in WholeKeys : Enc(N, k) \in DOMAIN store}}
            others == {Enc(M, K) : M \in Namespaces \ {N}, K \in WholeKeys}
        IN  /\ last.res.err = "nil"
            /\ mine \subseteq Delivered(last.res.calls)
            /\ Delivered(last.res.calls) \cap others = {}
            /\ Len(last.res.calls) = Cardinality(mine)

\* C20's case: the session holds the empty key of namespace 2 and a key of
\* each of the namespaces 1 and 3, and the walk of a Range without bounds,
\* exclusive, on tree 2 delivered the empty key alone.
C20_Witness ==
    /\ CleanWalk /\ last.ns = 2
    /\ last.rng = Range(NilKey, NilKey, TRUE)
    /\ Cardinality(DOMAIN store) = 3
    /\ \E K1 \in WholeKeys, K3 \in WholeKeys :
           {Enc(1, K1), Enc(3, K3)} \subseteq DOMAIN store
    /\ KeysOfCalls(last.res.calls) = <<Enc(2, NewKey(<<>>))>>

\* What a read is to report for a value that was written: nil when it is
\* empty or its first byte is 0x00, whatever its length, else its bytes.
Reported(value) == IF Verbatim(value) THEN SomeValue(value) ELSE NoValue

\* C21: after Put(K, v), Get(K) returns no error and nil when v is empty or
\* starts with 0x00, whatever the length of v, and v byte for byte when its
\* first byte is not 0x00, both on the new content and in the next Get
\* call; a value that is not empty is stored as it was given; and a walk
\* gives its callback, for each key, the value that Get returns for it.
C21_LeadingZeroIsNoValue ==
    [][/\ last'.op = "Put" =>
            LET k == Enc(last'.ns, last'.key)
            IN  /\ last'.err = "nil"
                /\ Get(store', TreeOf(last'.ns), last'.key)
                       = [v |-> Reported(last'.value), err |-> "nil"]
                /\ Len(last'.value) > 0 => store'[k] = last'.value
       /\ (last.op = "Put" /\ last'.op = "Get" /\ SameKey(last, last'))
              => last'.v = Reported(last.value) /\ last'.err = "nil"
       /\ (last'.op = "IterateOnRange" /\ last'.ns \in ValueNamespaces) =>
            LET calls == last'.res.calls
            IN  /\ Len(calls) = Cardinality(NsKeys(store', last'.ns))
                /\ \A i \in 1..Len(calls) : \A K \in CrudKeys(last'.ns) :
                       Enc(last'.ns, K) = calls[i].key =>
                           Get(store', TreeOf(last'.ns), K)
                               = [v |-> calls[i].v, err |-> "nil"]
      ]_vars

\* C21's case: Get returned nil with no error for a key that holds the two
\* bytes 0x00 "a", while the other key holds "a" followed by 0x00.
C21_Witness ==
    /\ last.op = "Get" /\ last.v = NoValue /\ last.err = "nil"
    /\ store[Enc(last.ns, last.key)] = <<0, 97>>
    /\ \E K \in CrudKeys(last.ns) :
           /\ Enc(last.ns, K) \in DOMAIN store
           /\ store[Enc(last.ns, K)] = <<97, 0>>

===========================================================================
